---- MODULE Spec2Model ----
(***************************************************************************)
(* A model of the BM25 inverted index (inverted_index.py) and of the       *)
(* ranking metrics (evaluate.py).                                          *)
(*                                                                         *)
(* Strings are sequences of one-character strings.  A posting is a pair    *)
(* <<doc_id, score>>, so p[1] is Python's p[0] and p[2] is Python's p[1].  *)
(* Floating point scores are fixed-point integers in units of 2^-FracBits; *)
(* the term-frequency factor is an exact rational until it is multiplied   *)
(* by the inverse document frequency.                                      *)
(***************************************************************************)
EXTENDS Integers, Sequences, FiniteSets, TLC

\* ------------------------------------------------------------------ bounds
MaxDocs == 2
MaxTitleLen == 1
MaxQueryLen == 3
FracBits == 8
MaxMergeId == 3
MaxScore == 2
MaxResultId == 3
MaxResultLen == 3
MaxK == 4

\* ------------------------------------------------- build_from_file defaults
\* b = 0.75 and k = 1.75, as exact fractions.
BNum == 3
BDen == 4
KNum == 7
KDen == 4

\* -------------------------------------------------------------- characters
TAB == "\t"
NL == "\n"
LowerChars == {"a", "b"}
UpperChars == {"A", "B"}
Whitespace == {" ", TAB, NL}

\* the character class [A-Za-z] of the split pattern
IsAlpha(c) == c \in LowerChars \cup UpperChars

\* str.lower(), one character
LowerChar(c) == IF c = "A" THEN "a" ELSE IF c = "B" THEN "b" ELSE c

\* str.lower()
Lower(s) == [i \in 1..Len(s) |-> LowerChar(s[i])]

\* str.strip(): drop leading and trailing whitespace
RECURSIVE LStrip(_)
LStrip(s) == IF s /= <<>> /\ Head(s) \in Whitespace THEN LStrip(Tail(s)) ELSE s

RECURSIVE RStrip(_)
RStrip(s) ==
    IF s /= <<>> /\ s[Len(s)] \in Whitespace
    THEN RStrip(SubSeq(s, 1, Len(s) - 1))
    ELSE s

Strip(s) == RStrip(LStrip(s))

\* first index >= i of s that holds an alphabetic character, Len(s)+1 if none
RECURSIVE SkipNonAlpha(_, _)
SkipNonAlpha(s, i) ==
    IF i > Len(s) \/ IsAlpha(s[i]) THEN i ELSE SkipNonAlpha(s, i + 1)

\* re.split("[^A-Za-z]+", s): the pieces between the maximal runs of
\* non-alphabetic characters, empty pieces at either end included
RECURSIVE ReSplitFrom(_, _, _, _)
ReSplitFrom(s, i, cur, acc) ==
    IF i > Len(s) THEN Append(acc, cur)
    ELSE IF IsAlpha(s[i]) THEN ReSplitFrom(s, i + 1, Append(cur, s[i]), acc)
    ELSE ReSplitFrom(s, SkipNonAlpha(s, i), <<>>, Append(acc, cur))

ReSplit(s) == ReSplitFrom(s, 1, <<>>, <<>>)

\* str.split("\t", maxsplit): at most maxsplit cuts, at the leftmost tabs
RECURSIVE TabSplitFrom(_, _, _, _, _)
TabSplitFrom(s, i, cur, acc, maxsplit) ==
    IF i > Len(s) THEN Append(acc, cur)
    ELSE IF s[i] = TAB /\ maxsplit > 0
         THEN TabSplitFrom(s, i + 1, <<>>, Append(acc, cur), maxsplit - 1)
         ELSE TabSplitFrom(s, i + 1, Append(cur, s[i]), acc, maxsplit)

TabSplit(s, maxsplit) == TabSplitFrom(s, 1, <<>>, <<>>, maxsplit)

\* ------------------------------------------------------------------ inputs
SeqsUpTo(S, lo, hi) == UNION {[1..n -> S] : n \in lo..hi}

TitleChars == {"a", "B"}
QueryChars == {"a", "b", "B", " "}

\* the descriptions: none, or a word that the title may repeat
Descs == {<<>>, <<"a">>}

\* the fields after the description; the empty one is a truncated record
Rests == {<<"7">>, <<>>}

\* a line of the corpus file: <title>TAB<description>TAB<rest>NEWLINE
Lines ==
    {t \o <<TAB>> \o d \o <<TAB>> \o r \o <<NL>> :
        t \in SeqsUpTo(TitleChars, 1, MaxTitleLen),
        d \in Descs,
        r \in Rests}

Queries == SeqsUpTo(QueryChars, 0, MaxQueryLen)

\* -------------------------------------------------------------------- state
VARIABLES
    pc,              \* position of the index's life: reading, built, ...
    doc_id,          \* build_from_file's line counter
    docs,            \* self.docs: records (title, description, length)
    inverted_lists,  \* self.inverted_lists: word -> sequence of postings
    avdoclen,        \* self.avdoclen as a fraction [num, den]
    query,           \* the argument of the last process_query
    result,          \* what the last process_query returned
    in_list1,           \* merge's first argument
    in_list2,           \* merge's second argument
    merged,          \* what merge returned
    in_result_ids,      \* the metrics' result list
    in_relevant_ids,    \* the metrics' set of relevant ids
    in_k,               \* precision_at_k's cut-off
    out              \* what the metric returned: [exc, num, den]

indexVars == <<doc_id, docs, inverted_lists, avdoclen, query, result>>
mergeVars == <<in_list1, in_list2, merged>>
evalVars == <<in_result_ids, in_relevant_ids, in_k, out>>
vars == <<pc, indexVars, mergeVars, evalVars>>

NoLists == [w \in {} |-> <<>>]

\* ------------------------------------------------------ build, first pass
\* AddWord without the look at the list's last entry: every occurrence of a
\* word appends a posting
AddWordAlwaysAppend(lists, word, id) ==
    IF word \notin DOMAIN lists
    THEN (word :> << <<id, 1>> >>) @@ lists
    ELSE [lists EXCEPT ![word] = Append(lists[word], <<id, 1>>)]

\* lines 84-91: count one occurrence of word in document id
AddWord(lists, word, id) ==
    IF word \notin DOMAIN lists
    THEN (word :> << <<id, 1>> >>) @@ lists
    ELSE LET l == lists[word]
             last == l[Len(l)]
         IN  IF last[1] /= id
             THEN [lists EXCEPT ![word] = Append(l, <<id, 1>>)]
             ELSE [lists EXCEPT ![word] = [l EXCEPT ![Len(l)] = <<id, last[2] + 1>>]]

\* lines 77-91: the loop over the pieces of one line
RECURSIVE AddWords(_, _, _, _)
AddWords(lists, words, i, id) ==
    IF i > Len(words) THEN lists
    ELSE LET word == Strip(Lower(words[i]))
         IN  IF Len(word) = 0
             THEN AddWords(lists, words, i + 1, id)
             ELSE AddWords(AddWord(lists, word, id), words, i + 1, id)

\* ----------------------------------------------------- build, second pass
RECURSIVE Pow2(_)
Pow2(n) == IF n = 0 THEN 1 ELSE 2 * Pow2(n - 1)

One == Pow2(FracBits)

\* the integer part of log2(num/den), for num >= den
RECURSIVE Log2Int(_, _)
Log2Int(num, den) == IF num >= 2 * den THEN 1 + Log2Int(num, 2 * den) ELSE 0

\* the fraction bits of log2(x/One) for One <= x < 2*One, by repeated squaring
RECURSIVE Log2Frac(_, _)
Log2Frac(x, bits) ==
    IF bits = 0 THEN 0
    ELSE LET sq == (x * x) \div One
         IN  IF sq >= 2 * One
             THEN Pow2(bits - 1) + Log2Frac(sq \div 2, bits - 1)
             ELSE Log2Frac(sq, bits - 1)

\* math.log2(num/den) in units of 1/One, for num >= den > 0
Log2Fixed(num, den) ==
    LET e == Log2Int(num, den)
    IN  e * One + Log2Frac((num * One) \div (den * Pow2(e)), FracBits)

\* lines 106-117: tf * (k1 + 1) / (k1 * (1 - b + b * DL / AVDL) + tf) for
\* every posting of one list, with b = BNum/BDen, k1 = KNum/KDen and
\* AVDL = avdl.num / avdl.den
bm25tf(l, dcs, avdl) ==
    [i \in 1..Len(l) |->
        LET DL == dcs[l[i][1]].len
            tf == l[i][2]
        IN  <<l[i][1],
              [num |-> tf * (KNum + KDen) * BDen * avdl.num,
               den |-> KNum * ((BDen - BNum) * avdl.num + BNum * DL * avdl.den)
                       + tf * KDen * BDen * avdl.num]>>]

\* line 123: IDF = log2((N - n + 0.5) / (n + 0.5) + 1)
IDF(N, n) == Log2Fixed((2 * (N - n) + 1) + (2 * n + 1), 2 * n + 1)

\* lines 120-126: every score of one list times the list's IDF
bm25(l, N) ==
    [i \in 1..Len(l) |-> <<l[i][1], (l[i][2].num * IDF(N, Len(l))) \div l[i][2].den>>]

RECURSIVE SumLen(_, _)
SumLen(dcs, i) == IF i > Len(dcs) THEN 0 ELSE dcs[i].len + SumLen(dcs, i + 1)

\* ------------------------------------------------------------------- merge
\* lines 166-171: the inner loop; ret says that it returned from merge
RECURSIVE MergeInner(_, _, _, _, _)
MergeInner(list1, list2, cursor1, cursor2, union) ==
    IF list2[cursor2][1] < list1[cursor1][1]
    THEN LET u == Append(union, list2[cursor2])
         IN  IF cursor2 + 1 > Len(list2)
             THEN [ret |-> TRUE, cursor2 |-> cursor2 + 1, union |-> u]
             ELSE MergeInner(list1, list2, cursor1, cursor2 + 1, u)
    ELSE [ret |-> FALSE, cursor2 |-> cursor2, union |-> union]

\* lines 165-182: the outer loop (cursors are 1-based here)
RECURSIVE MergeOuter(_, _, _, _, _)
MergeOuter(list1, list2, cursor1, cursor2, union) ==
    IF cursor2 <= Len(list2) /\ cursor1 <= Len(list1)
    THEN LET in == MergeInner(list1, list2, cursor1, cursor2, union)
             c2 == in.cursor2
             u1 == IF list2[c2][1] = list1[cursor1][1]
                   THEN Append(in.union,
                               <<list2[c2][1], list1[cursor1][2] + list2[c2][2]>>)
                   ELSE in.union
             u2 == IF list2[c2][1] > list1[cursor1][1]
                   THEN Append(u1, list1[cursor1])
                   ELSE u1
         IN  IF in.ret THEN in.union
             ELSE MergeOuter(list1, list2, cursor1 + 1, c2, u2)
    ELSE union

\* lines 159-182
merge(list1, list2) == MergeOuter(list1, list2, 1, 1, <<>>)

\* ----------------------------------------------------------- process_query
\* FoldKeywords with an unknown keyword skipped instead of clearing the union
RECURSIVE FoldKeywordsSkipAbsent(_, _, _, _)
FoldKeywordsSkipAbsent(lists, keywords, i, union) ==
    IF i > Len(keywords) THEN union
    ELSE IF keywords[i] \in DOMAIN lists
         THEN FoldKeywordsSkipAbsent(lists, keywords, i + 1,
                                     merge(union, lists[keywords[i]]))
         ELSE FoldKeywordsSkipAbsent(lists, keywords, i + 1, union)

\* lines 212-216: the loop over all keywords, the first one included
RECURSIVE FoldKeywords(_, _, _, _)
FoldKeywords(lists, keywords, i, union) ==
    IF i > Len(keywords) THEN union
    ELSE IF keywords[i] \in DOMAIN lists
         THEN FoldKeywords(lists, keywords, i + 1, merge(union, lists[keywords[i]]))
         ELSE FoldKeywords(lists, keywords, i + 1, <<>>)

\* put p behind the entries of the sorted sequence s whose score is >= p's
RECURSIVE InsertByScore(_, _)
InsertByScore(s, p) ==
    IF s = <<>> THEN <<p>>
    ELSE IF Head(s)[2] >= p[2] THEN <<Head(s)>> \o InsertByScore(Tail(s), p)
    ELSE <<p>> \o s

\* line 218: sorted(union, key=score, reverse=True), which is stable
RECURSIVE SortByScore(_, _, _)
SortByScore(union, i, acc) ==
    IF i > Len(union) THEN acc
    ELSE SortByScore(union, i + 1, InsertByScore(acc, union[i]))

\* lines 207-223
process_query(lists, q) ==
    LET keywords == ReSplit(q)
        first == IF keywords[1] \in DOMAIN lists THEN lists[keywords[1]] ELSE <<>>
        union == FoldKeywords(lists, keywords, 1, first)
        sorted_union == SortByScore(union, 1, <<>>)
    IN  [i \in 1..Len(sorted_union) |-> sorted_union[i][1]]

\* ----------------------------------------------------------------- actions
Fraction(n, d) == [exc |-> "none", num |-> n, den |-> d]

\* an InvertedIndex right after __init__ (lines 17-19), nothing asked yet
IndexIdle ==
    /\ doc_id = 0
    /\ docs = <<>>
    /\ inverted_lists = NoLists
    /\ avdoclen = [num |-> 0, den |-> 1]
    /\ query = <<>>
    /\ result = <<>>

MergeIdle == in_list1 = <<>> /\ in_list2 = <<>> /\ merged = <<>>

EvalIdle ==
    /\ in_result_ids = <<>>
    /\ in_relevant_ids = {}
    /\ in_k = 0
    /\ out = Fraction(0, 1)

Init ==
    /\ pc = "reading"
    /\ IndexIdle
    /\ MergeIdle
    /\ EvalIdle

\* lines 68-91: one iteration of the loop over the lines of the file
BuildReadLine(raw) ==
    /\ pc = "reading"
    /\ doc_id < MaxDocs
    /\ LET line == Strip(raw)
           fields == TabSplit(line, 2)
       IN  /\ doc_id' = doc_id + 1
           /\ IF Len(fields) /= 3
              THEN /\ pc' = "ValueError"
                   /\ UNCHANGED <<docs, inverted_lists>>
              ELSE /\ pc' = "reading"
                   /\ docs' = Append(docs, [title |-> fields[1],
                                            description |-> fields[2],
                                            len |-> Len(ReSplit(line))])
                   /\ inverted_lists' =
                          AddWords(inverted_lists, ReSplit(line), 1, doc_id + 1)
    /\ UNCHANGED <<avdoclen, query, result, mergeVars, evalVars>>

\* lines 94-101: end of file, the average length and the second pass
BuildFinish ==
    /\ pc = "reading"
    /\ IF Len(docs) = 0
       THEN /\ pc' = "ZeroDivisionError"
            /\ UNCHANGED <<avdoclen, inverted_lists>>
       ELSE LET avdl == [num |-> SumLen(docs, 1), den |-> Len(docs)]
            IN  /\ pc' = "built"
                /\ avdoclen' = avdl
                /\ inverted_lists' =
                       [w \in DOMAIN inverted_lists |->
                           bm25(bm25tf(inverted_lists[w], docs, avdl), Len(docs))]
    /\ UNCHANGED <<doc_id, docs, query, result, mergeVars, evalVars>>

\* lines 244-245: one query against the built index.  process_query changes
\* nothing of the index, so one query stands for each query of main's loop.
ProcessQuery(q) ==
    /\ pc = "built"
    /\ pc' = "queried"
    /\ query' = q
    /\ result' = process_query(inverted_lists, q)
    /\ UNCHANGED <<doc_id, docs, inverted_lists, avdoclen, mergeVars, evalVars>>

Next ==
    \/ \E raw \in Lines : BuildReadLine(raw)
    \/ BuildFinish
    \/ \E q \in Queries : ProcessQuery(q)

Spec == Init /\ [][Next]_vars

\* ------------------------------------------------------------ merge alone
\* posting lists as merge expects them: sorted by doc id, ascending
PostingLists ==
    {l \in SeqsUpTo((1..MaxMergeId) \X (1..MaxScore), 0, MaxMergeId) :
        \A i \in 1..(Len(l) - 1) : l[i][1] < l[i + 1][1]}

InitMerge ==
    /\ pc = "merge_call"
    /\ in_list1 \in PostingLists
    /\ in_list2 \in PostingLists
    /\ merged = <<>>
    /\ IndexIdle
    /\ EvalIdle

\* lines 130-182: one call of merge
Merge ==
    /\ pc = "merge_call"
    /\ pc' = "merged"
    /\ merged' = merge(in_list1, in_list2)
    /\ UNCHANGED <<in_list1, in_list2, indexVars, evalVars>>

NextMerge == Merge

SpecMerge == InitMerge /\ [][NextMerge]_vars

\* ----------------------------------------------------------------- metrics
Min(a, b) == IF a < b THEN a ELSE b

\* evaluate.py lines 86-89: the loop over result_ids[:k]
RECURSIVE CountRelevant(_, _, _)
CountRelevant(top, relevant_ids, i) ==
    IF i > Len(top) THEN 0
    ELSE (IF top[i] \in relevant_ids THEN 1 ELSE 0)
         + CountRelevant(top, relevant_ids, i + 1)

\* evaluate.py lines 86-90: precision / k, which raises when k is 0
precision_at_k(result_ids, relevant_ids, k) ==
    LET precision ==
            CountRelevant(SubSeq(result_ids, 1, Min(k, Len(result_ids))),
                          relevant_ids, 1)
    IN  IF k = 0
        THEN [exc |-> "ZeroDivisionError", num |-> precision, den |-> k]
        ELSE Fraction(precision, k)

\* list.index(a), 0-based, for an a that occurs in s
IndexOf(s, a) ==
    (CHOOSE i \in 1..Len(s) : s[i] = a /\ \A j \in 1..(i - 1) : s[j] /= a) - 1

InSeq(s, a) == \E i \in 1..Len(s) : s[i] = a

\* evaluate.py lines 107-109: the ranks, in the set's iteration order
RECURSIVE RList(_, _)
RList(relevant_ids, result_ids) ==
    IF relevant_ids = {} THEN <<>>
    ELSE LET a == CHOOSE x \in relevant_ids : TRUE
             rest == RList(relevant_ids \ {a}, result_ids)
         IN  IF InSeq(result_ids, a)
             THEN <<IndexOf(result_ids, a)>> \o rest
             ELSE rest

AddFraction(x, y) == Fraction(x.num * y.den + y.num * x.den, x.den * y.den)

\* sum(result) over a list of fractions
RECURSIVE SumFractions(_, _)
SumFractions(fs, i) ==
    IF i > Len(fs) THEN Fraction(0, 1)
    ELSE AddFraction(fs[i], SumFractions(fs, i + 1))

\* average_precision dividing by the number of relevant ids it found
average_precision_per_found(result_ids, relevant_ids) ==
    LET R_list == RList(relevant_ids, result_ids)
        precisions == [i \in 1..Len(R_list) |->
                          precision_at_k(result_ids, relevant_ids, R_list[i] + 1)]
        total == SumFractions(precisions, 1)
    IN  IF Len(precisions) /= 0
        THEN Fraction(total.num, total.den * Len(precisions))
        ELSE Fraction(0, 1)

\* evaluate.py lines 105-116
average_precision(result_ids, relevant_ids) ==
    LET R_list == RList(relevant_ids, result_ids)
        precisions == [i \in 1..Len(R_list) |->
                          precision_at_k(result_ids, relevant_ids, R_list[i] + 1)]
        total == SumFractions(precisions, 1)
    IN  IF Len(precisions) /= 0
        THEN Fraction(total.num, total.den * Cardinality(relevant_ids))
        ELSE Fraction(0, 1)

InitEval ==
    /\ pc = "eval_call"
    /\ in_result_ids \in SeqsUpTo(1..MaxResultId, 0, MaxResultLen)
    /\ in_relevant_ids \in SUBSET (1..MaxResultId)
    /\ in_k = 0
    /\ out = Fraction(0, 1)
    /\ IndexIdle
    /\ MergeIdle

\* evaluate.py lines 69-90: one call of precision_at_k
PrecisionAtK(kk) ==
    /\ pc = "eval_call"
    /\ pc' = "precision"
    /\ in_k' = kk
    /\ out' = precision_at_k(in_result_ids, in_relevant_ids, kk)
    /\ UNCHANGED <<in_result_ids, in_relevant_ids, indexVars, mergeVars>>

\* evaluate.py lines 92-116: one call of average_precision
AveragePrecision ==
    /\ pc = "eval_call"
    /\ pc' = "average"
    /\ out' = average_precision(in_result_ids, in_relevant_ids)
    /\ UNCHANGED <<in_result_ids, in_relevant_ids, in_k, indexVars, mergeVars>>

NextEval ==
    \/ \E kk \in 0..MaxK : PrecisionAtK(kk)
    \/ AveragePrecision

SpecEval == InitEval /\ [][NextEval]_vars

\* ============================================================== properties
\* the score of document d in the posting list l, 0 when d has no posting
PostingScore(l, d) ==
    IF \E i \in 1..Len(l) : l[i][1] = d
    THEN l[CHOOSE i \in 1..Len(l) : l[i][1] = d][2]
    ELSE 0

PostingIds(l) == {l[i][1] : i \in 1..Len(l)}

StrictlyIncreasing(l) == \A i \in 1..(Len(l) - 1) : l[i][1] < l[i + 1][1]

\* the sum of d's scores over the keywords from position i on
RECURSIVE TotalScore(_, _, _, _)
TotalScore(lists, keywords, i, d) ==
    IF i > Len(keywords) THEN 0
    ELSE PostingScore(lists[keywords[i]], d) + TotalScore(lists, keywords, i + 1, d)

\* the sum of d's scores over the lists of the terms in ws
RECURSIVE SumOverTerms(_, _, _)
SumOverTerms(lists, ws, d) ==
    IF ws = {} THEN 0
    ELSE LET w == CHOOSE x \in ws : TRUE
         IN  PostingScore(lists[w], d) + SumOverTerms(lists, ws \ {w}, d)

\* the tokens of corpus text (lines 77-82): lower-cased, empty ones dropped
RECURSIVE Tokenize(_, _)
Tokenize(pieces, i) ==
    IF i > Len(pieces) THEN <<>>
    ELSE LET word == Strip(Lower(pieces[i]))
         IN  IF Len(word) = 0 THEN Tokenize(pieces, i + 1)
             ELSE <<word>> \o Tokenize(pieces, i + 1)

\* the tokens joined by single blanks
RECURSIVE JoinBlank(_)
JoinBlank(tokens) ==
    IF tokens = <<>> THEN <<>>
    ELSE IF Len(tokens) = 1 THEN tokens[1]
    ELSE tokens[1] \o <<" ">> \o JoinBlank(Tail(tokens))

RECURSIVE Factorial(_)
Factorial(n) == IF n = 0 THEN 1 ELSE n * Factorial(n - 1)

\* the 1-based rank of r in s: one more than the longest prefix without r
RankOf(s, r) == Cardinality({i \in 1..Len(s) : \A j \in 1..i : s[j] /= r}) + 1

\* the number of relevant entries among the first n of s
HitsUpTo(s, relevant, n) == Cardinality({j \in 1..n : s[j] \in relevant})

\* the sum over rs of (precision at r's rank) * scale
RECURSIVE ScaledPrecisionSum(_, _, _, _)
ScaledPrecisionSum(s, relevant, rs, scale) ==
    IF rs = {} THEN 0
    ELSE LET r == CHOOSE x \in rs : TRUE
         IN  HitsUpTo(s, relevant, RankOf(s, r)) * (scale \div RankOf(s, r))
             + ScaledPrecisionSum(s, relevant, rs \ {r}, scale)

\* C1: for posting lists A and B sorted by strictly increasing doc id,
\* merge(A, B) is the sorted union: one entry for every id of A or of B, in
\* strictly increasing order, with the score of the one list that has the id
\* or the sum of the two scores when both have it.
C1_MergeIsSortedUnion ==
    pc = "merged" =>
        /\ StrictlyIncreasing(merged)
        /\ PostingIds(merged) = PostingIds(in_list1) \cup PostingIds(in_list2)
        /\ \A i \in 1..Len(merged) :
               merged[i][2] = PostingScore(in_list1, merged[i][1])
                              + PostingScore(in_list2, merged[i][1])

\* C2: the empty list is an identity of merge: merge(A, []) = A,
\* merge([], A) = A and merge([], []) = [].
C2_MergeEmptyIsIdentity ==
    pc = "merged" =>
        /\ (in_list2 = <<>> => merged = in_list1)
        /\ (in_list1 = <<>> => merged = in_list2)

\* C3: for a query whose keywords are all in the index, process_query returns
\* every document id of the keywords' posting lists exactly once and no other
\* id, by descending total score (each keyword counted once), documents of
\* equal total score by ascending id.
C3_QueryRanksUnionOnce ==
    LET keywords == ReSplit(query)
        total(d) == TotalScore(inverted_lists, keywords, 1, d)
    IN  (pc = "queried" /\ \A i \in 1..Len(keywords) : keywords[i] \in DOMAIN inverted_lists)
        =>  /\ {result[i] : i \in 1..Len(result)} =
                   UNION {PostingIds(inverted_lists[keywords[i]]) : i \in 1..Len(keywords)}
            /\ \A i, j \in 1..Len(result) : i < j =>
                   /\ result[i] /= result[j]
                   /\ \/ total(result[i]) > total(result[j])
                      \/ total(result[i]) = total(result[j]) /\ result[i] < result[j]

\* C4: precision_at_k with k = 0 returns 0 and raises nothing.
C4_PrecisionAtZeroIsZero ==
    (pc = "precision" /\ in_k = 0) => (out.exc = "none" /\ out.num = 0)

\* C5: average_precision is the sum, over the relevant ids that occur in the
\* result list, of the precision at the id's 1-based rank, divided by the
\* size of the relevant set; it is 0 when no relevant id occurs in the result
\* list, and it lies between 0 and 1.
C5_AveragePrecision ==
    pc = "average" =>
        LET found == {r \in in_relevant_ids : InSeq(in_result_ids, r)}
            scale == Factorial(Len(in_result_ids))
        IN  /\ out.exc = "none"
            /\ out.den > 0
            /\ out.num * scale * Cardinality(in_relevant_ids) =
                   out.den * ScaledPrecisionSum(in_result_ids, in_relevant_ids,
                                                found, scale)
            /\ (found = {} => out.num = 0)
            /\ 0 <= out.num
            /\ out.num <= out.den

\* C5 witness: some relevant id was found at a rank behind an irrelevant
\* entry, and another relevant id was not found at all.
C5_Witness ==
    /\ pc = "average"
    /\ \E r \in in_relevant_ids : InSeq(in_result_ids, r) /\ RankOf(in_result_ids, r) > 1
    /\ \E r \in in_relevant_ids : ~InSeq(in_result_ids, r)
    /\ \E i \in 1..Len(in_result_ids) : in_result_ids[i] \notin in_relevant_ids
    /\ out.num > 0
    /\ out.num < out.den

\* C6: a query is tokenized like corpus text, so process_query returns the
\* same for a query as for its lower-cased tokens joined by single blanks.
C6_QueryTokenizedLikeCorpus ==
    pc = "queried" =>
        result = process_query(inverted_lists, JoinBlank(Tokenize(ReSplit(query), 1)))

\* C7: during and after the build every posting list has strictly increasing
\* doc ids, all between 1 and the number of documents ingested, and is no
\* longer than the number of documents.
C7_PostingListsSorted ==
    \A w \in DOMAIN inverted_lists :
        /\ StrictlyIncreasing(inverted_lists[w])
        /\ PostingIds(inverted_lists[w]) \subseteq 1..Len(docs)
        /\ Len(inverted_lists[w]) <= Len(docs)

\* C7 witness: a finished build of several documents with a word that occurs
\* in all of them, a word that occurs twice in one document, and a word that
\* is missing from the first document.
C7_Witness ==
    /\ pc = "built"
    /\ Len(docs) >= 2
    /\ \E w \in DOMAIN inverted_lists : Len(inverted_lists[w]) = Len(docs)
    /\ \E w \in DOMAIN inverted_lists : inverted_lists[w][1][1] > 1
    /\ \E i \in 1..Len(docs) : docs[i].title = docs[i].description

\* C8: after a build, a term that occurs in every document has score 0 in
\* every posting.
C8_FullFrequencyTermScoresZero ==
    pc \in {"built", "queried"} =>
        \A w \in DOMAIN inverted_lists :
            Len(inverted_lists[w]) = Len(docs) =>
                \A i \in 1..Len(inverted_lists[w]) : inverted_lists[w][i][2] = 0

C10_LengthCountsTokens ==
    pc = "reading" =>
        \A d \in 1..Len(docs) :
            docs[d].len = SumOverTerms(inverted_lists, DOMAIN inverted_lists, d)

====
